---------------------------- MODULE Spec2Model ----------------------------
(***************************************************************************)
(* Blog API (FastAPI + Oxyde ORM over SQLite).                             *)
(*                                                                         *)
(* Three state machines share this module:                                 *)
(*   MigSpec  the migration chain of src/migrations: resolution of the     *)
(*            depends_on links, apply(latest), revert(X) and the ledger;   *)
(*   FaultSpec the same runs when a statement of an upgrade can fail;      *)
(*   Spec     the request handlers of src/routes running concurrently      *)
(*            against the tables the migrations create.  A handler is cut  *)
(*            at its awaits: every await of a query is one step, and the   *)
(*            body of transaction.atomic() is one step.                    *)
(***************************************************************************)
EXTENDS Integers, Sequences, FiniteSets, TLC

VARIABLES
    schema,     \* table name -> [fields, foreign_keys]: the tables that exist
    applied,    \* the Applied-Migration Record: units in application order
    order,      \* the resolver's order, as far as it is built
    mpc,        \* the migration run's position
    cursor,     \* apply: index in order of the unit being applied
    opi,        \* apply: statements of the current unit's upgrade already run
    saved,      \* the schema when the current unit's transaction began
    base,       \* the Applied-Migration Record as the current run found it
    kind,       \* the current (or last) run: "apply" or "revert"
    target,     \* revert: the unit to go back to
    runs,       \* number of runs (apply or revert) completed
    mlog,       \* what the runs did, in order: [run, ev, what]
    db,         \* table name -> set of rows
    req,        \* request slot -> the request it is handling or has handled
    clock       \* requests admitted so far (also the store's CURRENT_TIMESTAMP)

migvars == <<schema, applied, order, mpc, cursor, opi, saved, base, kind, target, runs, mlog>>
reqvars == <<db, req, clock>>
vars == <<schema, applied, order, mpc, cursor, opi, saved, base, kind, target, runs, mlog,
          db, req, clock>>

Range(f) == {f[i] : i \in DOMAIN f}

Max(S) == CHOOSE x \in S : \A y \in S : y <= x

\* Python's None, for names and for ids (ids start at 1)
None == "None"
NULL == 0

(***************************************************************************)
(* The migration units                                                     *)
(***************************************************************************)
U1 == "0001_create_users_table"
U2 == "0002_create_posts_table"
U3 == "0003_create_comments_table"
U4 == "0004_create_tags_table"

\* the files of MIGRATIONS_DIR
Units == {U1, U2, U3, U4}

Field(name, python_type, nullable, primary_key, unique, default) ==
    [name |-> name, python_type |-> python_type, db_type |-> None,
     nullable |-> nullable, primary_key |-> primary_key, unique |-> unique,
     default |-> default, auto_increment |-> FALSE]

ForeignKey(name, column, ref_table) ==
    [name |-> name, columns |-> <<column>>, ref_table |-> ref_table,
     ref_columns |-> <<"id">>, on_delete |-> "CASCADE", on_update |-> "CASCADE"]

create_table(name, fields, foreign_keys) ==
    [op |-> "create_table", table |-> name, fields |-> fields,
     foreign_keys |-> foreign_keys]

drop_table(name) ==
    [op |-> "drop_table", table |-> name, fields |-> <<>>, foreign_keys |-> <<>>]

IdField == Field("id", "int", TRUE, TRUE, FALSE, None)

CreatedAtField == Field("created_at", "datetime", TRUE, FALSE, FALSE, "CURRENT_TIMESTAMP")

FkColumn(name) == Field(name, "int", TRUE, FALSE, FALSE, None)

\* depends_on with units 0003 and 0004 naming each other
depends_on_cyclic(u) ==
    CASE u = U1 -> None
      [] u = U2 -> U1
      [] u = U3 -> U4
      [] u = U4 -> U3

depends_on(u) ==
    CASE u = U1 -> None
      [] u = U2 -> U1
      [] u = U3 -> U2
      [] u = U4 -> U3

\* the users table with username and email not declared unique
UsersTable_not_unique ==
    create_table("users",
        << IdField,
           Field("username", "str", FALSE, FALSE, FALSE, None),
           Field("email", "str", FALSE, FALSE, FALSE, None),
           CreatedAtField >>,
        << >>)

UsersTable ==
    create_table("users",
        << IdField,
           Field("username", "str", FALSE, FALSE, TRUE, None),
           Field("email", "str", FALSE, FALSE, TRUE, None),
           CreatedAtField >>,
        << >>)

PostsTable ==
    create_table("posts",
        << IdField,
           Field("title", "str", FALSE, FALSE, FALSE, None),
           Field("content", "str", FALSE, FALSE, FALSE, None),
           Field("published", "bool", FALSE, FALSE, FALSE, "0"),
           CreatedAtField,
           Field("updated_at", "datetime", TRUE, FALSE, FALSE, "CURRENT_TIMESTAMP"),
           FkColumn("author_id") >>,
        << ForeignKey("fk_posts_author_id", "author_id", "users") >>)

CommentsTable ==
    create_table("comments",
        << IdField,
           Field("content", "str", FALSE, FALSE, FALSE, None),
           CreatedAtField,
           FkColumn("post_id"),
           FkColumn("author_id") >>,
        << ForeignKey("fk_comments_post_id", "post_id", "posts"),
           ForeignKey("fk_comments_author_id", "author_id", "users") >>)

\* the tags table with name and slug not declared unique
TagsTable_not_unique ==
    create_table("tags",
        << IdField,
           Field("name", "str", FALSE, FALSE, FALSE, None),
           Field("slug", "str", FALSE, FALSE, FALSE, None) >>,
        << >>)

TagsTable ==
    create_table("tags",
        << IdField,
           Field("name", "str", FALSE, FALSE, TRUE, None),
           Field("slug", "str", FALSE, FALSE, TRUE, None) >>,
        << >>)

PostTagsTable ==
    create_table("post_tags",
        << IdField, FkColumn("post_id"), FkColumn("tag_id") >>,
        << ForeignKey("fk_post_tags_post_id", "post_id", "posts"),
           ForeignKey("fk_post_tags_tag_id", "tag_id", "tags") >>)

\* upgrade with unit 0003 creating "posts" a second time instead of "comments"
upgrade_duplicate(u) ==
    CASE u = U1 -> << UsersTable >>
      [] u = U2 -> << PostsTable >>
      [] u = U3 -> << create_table("posts", CommentsTable.fields, CommentsTable.foreign_keys) >>
      [] u = U4 -> << TagsTable, PostTagsTable >>

\* upgrade with unit 0004 creating post_tags before tags
upgrade_swapped(u) ==
    CASE u = U1 -> << UsersTable >>
      [] u = U2 -> << PostsTable >>
      [] u = U3 -> << CommentsTable >>
      [] u = U4 -> << PostTagsTable, TagsTable >>

\* the statements of each unit's upgrade(ctx), in order
upgrade(u) ==
    CASE u = U1 -> << UsersTable >>
      [] u = U2 -> << PostsTable >>
      [] u = U3 -> << CommentsTable >>
      [] u = U4 -> << TagsTable, PostTagsTable >>

\* downgrade with unit 0004 dropping tags before post_tags
downgrade_tags_first(u) ==
    CASE u = U1 -> << drop_table("users") >>
      [] u = U2 -> << drop_table("posts") >>
      [] u = U3 -> << drop_table("comments") >>
      [] u = U4 -> << drop_table("tags"), drop_table("post_tags") >>

\* downgrade with unit 0004 dropping post_tags only
downgrade_partial(u) ==
    CASE u = U1 -> << drop_table("users") >>
      [] u = U2 -> << drop_table("posts") >>
      [] u = U3 -> << drop_table("comments") >>
      [] u = U4 -> << drop_table("post_tags") >>

\* the statements of each unit's downgrade(ctx), in order
downgrade(u) ==
    CASE u = U1 -> << drop_table("users") >>
      [] u = U2 -> << drop_table("posts") >>
      [] u = U3 -> << drop_table("comments") >>
      [] u = U4 -> << drop_table("post_tags"), drop_table("tags") >>

(***************************************************************************)
(* The Schema Model                                                        *)
(***************************************************************************)
EmptySchema == [t \in {} |-> 0]

\* DuplicateTable / UnknownTable
StatementError(s, o) ==
    IF o.op = "create_table"
    THEN (IF o.table \in DOMAIN s THEN "DuplicateTable" ELSE "ok")
    ELSE (IF o.table \notin DOMAIN s THEN "UnknownTable" ELSE "ok")

RunStatement(s, o) ==
    IF o.op = "create_table"
    THEN [t \in DOMAIN s \cup {o.table} |->
            IF t = o.table
            THEN [fields |-> o.fields, foreign_keys |-> o.foreign_keys]
            ELSE s[t]]
    ELSE [t \in DOMAIN s \ {o.table} |-> s[t]]

RECURSIVE RunStatements(_, _)
RunStatements(s, ops) ==
    IF ops = <<>> THEN s
    ELSE RunStatements(RunStatement(s, Head(ops)), Tail(ops))

RECURSIVE SchemaAfter(_)
\* the schema once the units of a chain prefix have been applied
SchemaAfter(us) ==
    IF us = <<>> THEN EmptySchema
    ELSE RunStatements(SchemaAfter(SubSeq(us, 1, Len(us) - 1)), upgrade(us[Len(us)]))

Chain == <<U1, U2, U3, U4>>

(***************************************************************************)
(* The Migration Resolver: resolution, apply(latest), revert(X)            *)
(***************************************************************************)
\* runs (apply or revert) one process lifetime makes
MaxRuns == 3

Event(ev, what) == [run |-> runs + 1, ev |-> ev, what |-> what]

Roots == {u \in Units : depends_on(u) = None}

\* the units that may be placed next: their predecessor is the last one placed
Ready ==
    IF order = <<>> THEN Roots
    ELSE {u \in Units \ Range(order) : depends_on(u) = order[Len(order)]}

ResolveError ==
    IF \E u \in Units : depends_on(u) /= None /\ depends_on(u) \notin Units
    THEN "UnresolvedDependency"
    ELSE IF Cardinality(Ready) > 1 THEN "AmbiguousRoot"
    ELSE IF Ready = {} THEN "CyclicDependency"
    ELSE "ok"

\* place the next unit of the order, or refuse the graph
ResolveStep ==
    /\ mpc = "resolve"
    /\ Range(order) /= Units
    /\ IF ResolveError = "ok"
       THEN /\ order' = Append(order, CHOOSE u \in Ready : TRUE)
            /\ mpc' = mpc
       ELSE /\ mpc' = ResolveError
            /\ order' = order
    /\ UNCHANGED <<schema, applied, cursor, opi, saved, base, kind, target, runs, mlog>>
    /\ UNCHANGED reqvars

ResolveDone ==
    /\ mpc = "resolve"
    /\ Range(order) = Units
    /\ mpc' = "apply"
    /\ cursor' = 1
    /\ UNCHANGED <<schema, applied, order, opi, saved, base, kind, target, runs, mlog>>
    /\ UNCHANGED reqvars

\* order[cursor] is in the ledger already: nothing to do for it
ApplySkip ==
    /\ mpc = "apply"
    /\ cursor <= Len(order)
    /\ order[cursor] \in Range(applied)
    /\ cursor' = cursor + 1
    /\ UNCHANGED <<schema, applied, order, mpc, opi, saved, base, kind, target, runs, mlog>>
    /\ UNCHANGED reqvars

\* open the transaction of the next unit that is not in the ledger
ApplyBegin ==
    /\ mpc = "apply"
    /\ cursor <= Len(order)
    /\ order[cursor] \notin Range(applied)
    /\ mpc' = "upgrade"
    /\ opi' = 0
    /\ saved' = schema
    /\ mlog' = Append(mlog, Event("upgrade", order[cursor]))
    /\ UNCHANGED <<schema, applied, order, cursor, base, kind, target, runs>>
    /\ UNCHANGED reqvars

\* one statement of upgrade(ctx); an error rolls the unit back and halts the run
ApplyStatement ==
    /\ mpc = "upgrade"
    /\ opi < Len(upgrade(order[cursor]))
    /\ LET o == upgrade(order[cursor])[opi + 1]
       IN IF StatementError(schema, o) = "ok"
          THEN /\ schema' = RunStatement(schema, o)
               /\ opi' = opi + 1
               /\ mlog' = Append(mlog, Event(o.op, o.table))
               /\ mpc' = mpc
          ELSE /\ schema' = saved
               /\ mpc' = StatementError(schema, o)
               /\ UNCHANGED <<opi, mlog>>
    /\ UNCHANGED <<applied, order, cursor, saved, base, kind, target, runs>>
    /\ UNCHANGED reqvars

\* commit: the unit is recorded in the ledger
ApplyCommit ==
    /\ mpc = "upgrade"
    /\ opi = Len(upgrade(order[cursor]))
    /\ applied' = Append(applied, order[cursor])
    /\ mlog' = Append(mlog, Event("record", order[cursor]))
    /\ cursor' = cursor + 1
    /\ mpc' = "apply"
    /\ UNCHANGED <<schema, order, opi, saved, base, kind, target, runs>>
    /\ UNCHANGED reqvars

ApplyDone ==
    /\ mpc = "apply"
    /\ cursor > Len(order)
    /\ mpc' = "idle"
    /\ runs' = runs + 1
    /\ UNCHANGED <<schema, applied, order, cursor, opi, saved, base, kind, target, mlog>>
    /\ UNCHANGED reqvars

\* apply(latest)
StartApply ==
    /\ mpc = "idle"
    /\ runs < MaxRuns
    /\ mpc' = "resolve"
    /\ kind' = "apply"
    /\ order' = <<>>
    /\ base' = applied
    /\ mlog' = Append(mlog, Event("apply", "latest"))
    /\ UNCHANGED <<schema, applied, cursor, opi, saved, target, runs>>
    /\ UNCHANGED reqvars

\* revert(X), X a unit of the applied chain
StartRevert ==
    /\ mpc = "idle"
    /\ runs < MaxRuns
    /\ \E x \in Range(applied) :
        /\ target' = x
        /\ mlog' = Append(mlog, Event("revert", x))
    /\ mpc' = "revert"
    /\ kind' = "revert"
    /\ base' = applied
    /\ UNCHANGED <<schema, applied, order, cursor, opi, saved, runs>>
    /\ UNCHANGED reqvars

\* open the transaction of the most recently applied unit
RevertBegin ==
    /\ mpc = "revert"
    /\ applied /= <<>>
    /\ applied[Len(applied)] /= target
    /\ mpc' = "downgrade"
    /\ opi' = 0
    /\ saved' = schema
    /\ mlog' = Append(mlog, Event("downgrade", applied[Len(applied)]))
    /\ UNCHANGED <<schema, applied, order, cursor, base, kind, target, runs>>
    /\ UNCHANGED reqvars

\* one statement of downgrade(ctx)
RevertStatement ==
    /\ mpc = "downgrade"
    /\ opi < Len(downgrade(applied[Len(applied)]))
    /\ LET o == downgrade(applied[Len(applied)])[opi + 1]
       IN IF StatementError(schema, o) = "ok"
          THEN /\ schema' = RunStatement(schema, o)
               /\ opi' = opi + 1
               /\ mlog' = Append(mlog, Event(o.op, o.table))
               /\ mpc' = mpc
          ELSE /\ schema' = saved
               /\ mpc' = StatementError(schema, o)
               /\ UNCHANGED <<opi, mlog>>
    /\ UNCHANGED <<applied, order, cursor, saved, base, kind, target, runs>>
    /\ UNCHANGED reqvars

\* commit: the unit leaves the ledger only after its downgrade succeeded
RevertCommit ==
    /\ mpc = "downgrade"
    /\ opi = Len(downgrade(applied[Len(applied)]))
    /\ applied' = SubSeq(applied, 1, Len(applied) - 1)
    /\ mlog' = Append(mlog, Event("unrecord", applied[Len(applied)]))
    /\ mpc' = "revert"
    /\ UNCHANGED <<schema, order, cursor, opi, saved, base, kind, target, runs>>
    /\ UNCHANGED reqvars

RevertDone ==
    /\ mpc = "revert"
    /\ (applied = <<>> \/ applied[Len(applied)] = target)
    /\ mpc' = "idle"
    /\ runs' = runs + 1
    /\ UNCHANGED <<schema, applied, order, cursor, opi, saved, base, kind, target, mlog>>
    /\ UNCHANGED reqvars

TableNames == {"users", "posts", "comments", "tags", "post_tags"}

Slots == {"r1", "r2"}

Idle ==
    [op |-> "idle", arg |-> <<>>, pc |-> "done", res |-> "none", loc |-> <<>>,
     n |-> 0, k |-> 0, with |-> {}, gone |-> {}, came |-> {}]

\* the migrations run before traffic is admitted: no rows, no requests
MigInit ==
    /\ \E k \in 0..Len(Chain) : applied = SubSeq(Chain, 1, k)
    /\ schema = SchemaAfter(applied)
    /\ order = <<>>
    /\ mpc = "idle"
    /\ cursor = 0
    /\ opi = 0
    /\ saved = schema
    /\ base = applied
    /\ kind = "none"
    /\ target = None
    /\ runs = 0
    /\ mlog = <<>>
    /\ db = [t \in TableNames |-> {}]
    /\ req = [s \in Slots |-> Idle]
    /\ clock = 0

MigNext ==
    \/ StartApply
    \/ ResolveStep
    \/ ResolveDone
    \/ ApplySkip
    \/ ApplyBegin
    \/ ApplyStatement
    \/ ApplyCommit
    \/ ApplyDone
    \/ StartRevert
    \/ RevertBegin
    \/ RevertStatement
    \/ RevertCommit
    \/ RevertDone

MigSpec == MigInit /\ [][MigNext]_vars

(***************************************************************************)
(* The migration run with failures: a table may exist that no applied      *)
(* unit created (made by hand, or left by an earlier tool), and the        *)
(* storage engine may fail a statement of an upgrade                       *)
(***************************************************************************)
\* tables found in the database that the ledger does not account for
StrayTables == {"post_tags"}

\* the storage engine fails the next statement of upgrade(ctx): the unit's
\* transaction is rolled back and the run halts
ApplyFault ==
    /\ mpc = "upgrade"
    /\ opi < Len(upgrade(order[cursor]))
    /\ schema' = saved
    /\ mpc' = "EngineError"
    /\ UNCHANGED <<applied, order, cursor, opi, saved, base, kind, target, runs, mlog>>
    /\ UNCHANGED reqvars

FaultInit ==
    /\ \E k \in 0..Len(Chain) : applied = SubSeq(Chain, 1, k)
    /\ \E stray \in SUBSET (StrayTables \ DOMAIN SchemaAfter(applied)) :
          schema = [t \in DOMAIN SchemaAfter(applied) \cup stray |->
                      IF t \in stray
                      THEN [fields |-> PostTagsTable.fields, foreign_keys |-> << >>]
                      ELSE SchemaAfter(applied)[t]]
    /\ order = <<>>
    /\ mpc = "idle"
    /\ cursor = 0
    /\ opi = 0
    /\ saved = schema
    /\ base = applied
    /\ kind = "none"
    /\ target = None
    /\ runs = 0
    /\ mlog = <<>>
    /\ db = [t \in TableNames |-> {}]
    /\ req = [s \in Slots |-> Idle]
    /\ clock = 0

FaultNext ==
    \/ MigNext
    \/ ApplyFault

FaultSpec == FaultInit /\ [][FaultNext]_vars

(***************************************************************************)
(* Claims about the migration chain (checked under MigSpec)                *)
(***************************************************************************)
GraphErrors == {"UnresolvedDependency", "AmbiguousRoot", "CyclicDependency"}

SchemaErrors == {"DuplicateTable", "UnknownTable"}

RECURSIVE ReachesRoot(_, _)
\* following depends_on from u ends at a unit with no predecessor within n links
ReachesRoot(u, n) ==
    IF depends_on(u) = None THEN TRUE
    ELSE IF n = 0 \/ depends_on(u) \notin Units THEN FALSE
    ELSE ReachesRoot(depends_on(u), n - 1)

\* i < j whenever order[i] is the unit order[j] depends on
PlacedAfterPredecessor(o) ==
    \A j \in DOMAIN o :
        \/ depends_on(o[j]) = None
        \/ \E i \in 1..(j - 1) : o[i] = depends_on(o[j])

\* C9: resolving the four units by their depends_on links never fails and
\* yields the single total order 0001, 0002, 0003, 0004: one unit has no
\* predecessor, every depends_on names a known unit, no cycle, and in the
\* order as far as it is built every unit stands after the unit it depends on.
C9_ResolvedOrder ==
    /\ mpc \notin GraphErrors
    /\ Cardinality(Roots) = 1
    /\ \A u \in Units : depends_on(u) \in Units \cup {None}
    /\ \A u \in Units : ReachesRoot(u, Cardinality(Units))
    /\ order = SubSeq(Chain, 1, Len(order))
    /\ PlacedAfterPredecessor(order)
    /\ mpc \in {"apply", "upgrade"} => order = Chain

\* C9 witness: a resolution has run to its end and placed all four units
C9_Witness ==
    /\ mpc = "apply"
    /\ Len(order) = Cardinality(Units)
    /\ order[1] = U1 /\ order[4] = U4

EventsOf(r) == SelectSeq(mlog, LAMBDA e : e.run = r)

WhatOf(evs, ev) ==
    LET sel == SelectSeq(evs, LAMBDA e : e.ev = ev)
    IN [i \in DOMAIN sel |-> sel[i].what]

\* the units of the chain a ledger does not hold, in chain order
Pending(ledger) == SelectSeq(Chain, LAMBDA u : u \notin Range(ledger))

\* C10: an apply(latest) run never halts on an error, and when it ends it has
\* run the upgrade of exactly the units that were not in the ledger when it
\* began, each once and in dependency order, recorded each of them, and left
\* the latest schema; run from a ledger that already holds every unit (as a
\* second apply(latest) in a row does) it runs no statement and writes no
\* ledger entry.
C10_ApplyLatest ==
    /\ kind = "apply" => mpc \notin GraphErrors \cup SchemaErrors
    /\ (mpc = "idle" /\ kind = "apply") =>
        LET evs == EventsOf(runs)
            ups == WhatOf(evs, "upgrade")
        IN /\ ups = Pending(base)
           /\ WhatOf(evs, "record") = ups
           /\ \A i \in DOMAIN ups : \A j \in DOMAIN ups :
                depends_on(ups[j]) = ups[i] => i < j
           /\ applied = base \o ups
           /\ schema = SchemaAfter(Chain)
           /\ WhatOf(evs, "drop_table") = <<>>
           /\ Len(WhatOf(evs, "create_table")) = Cardinality(DOMAIN schema \ DOMAIN SchemaAfter(base))
           /\ Pending(base) = <<>> => (Len(evs) = 1 /\ applied = base /\ schema = SchemaAfter(base))

\* C10 witness: two apply(latest) runs in a row have ended; the first ran
\* upgrades, the second found nothing to do
C10_Witness ==
    /\ mpc = "idle" /\ kind = "apply" /\ runs = 2
    /\ WhatOf(EventsOf(1), "apply") = <<"latest">>
    /\ Len(WhatOf(EventsOf(1), "upgrade")) >= 2
    /\ WhatOf(EventsOf(2), "apply") = <<"latest">>
    /\ Len(EventsOf(2)) = 1

Reverse(q) == [i \in 1..Len(q) |-> q[Len(q) + 1 - i]]

TablesOf(ops) == {ops[i].table : i \in DOMAIN ops}

\* the units applied after x in a ledger, most recent first
AppliedAfter(ledger, x) ==
    Reverse(SelectSeq(ledger, LAMBDA u :
        \E i \in DOMAIN ledger : \E j \in DOMAIN ledger :
            ledger[i] = x /\ ledger[j] = u /\ i < j))

\* C11: a revert(X) run never halts on an error and, when it ends, has run
\* the downgrade of exactly the units applied after X, most recent first,
\* unrecording each, and the schema is the one of the remaining ledger; an
\* apply(latest) that ends right after a revert(X) begun from the fully
\* applied chain leaves the ledger and the schema (tables with their fields
\* and foreign keys) that were there before the revert; and each unit's
\* downgrade drops exactly the tables its upgrade created.
C11_RevertThenApply ==
    /\ \A u \in Units :
          /\ \A i \in DOMAIN downgrade(u) : downgrade(u)[i].op = "drop_table"
          /\ \A i \in DOMAIN upgrade(u) : upgrade(u)[i].op = "create_table"
          /\ TablesOf(downgrade(u)) = TablesOf(upgrade(u))
          /\ Len(downgrade(u)) = Cardinality(TablesOf(upgrade(u)))
    /\ kind = "revert" => mpc \notin SchemaErrors
    /\ mpc = "idle" => schema = SchemaAfter(applied)
    /\ (mpc = "idle" /\ kind = "revert") =>
        LET evs == EventsOf(runs)
            downs == WhatOf(evs, "downgrade")
        IN /\ downs = AppliedAfter(base, target)
           /\ WhatOf(evs, "unrecord") = downs
           /\ base = applied \o Reverse(downs)
           /\ WhatOf(evs, "create_table") = <<>>
    /\ (mpc = "idle" /\ kind = "apply" /\ runs >= 2
          /\ WhatOf(EventsOf(runs - 1), "revert") /= <<>>) =>
        LET before == base \o Reverse(WhatOf(EventsOf(runs - 1), "unrecord"))
        IN before = Chain =>
              /\ applied = before
              /\ schema = SchemaAfter(before)
              /\ WhatOf(EventsOf(runs), "upgrade") = Reverse(WhatOf(EventsOf(runs - 1), "downgrade"))

\* C11 witness: revert(0001) from the fully applied chain ran three
\* downgrades, and the apply(latest) after it has ended with the full ledger
C11_Witness ==
    /\ mpc = "idle" /\ kind = "apply" /\ runs = 2
    /\ WhatOf(EventsOf(1), "revert") = <<U1>>
    /\ WhatOf(EventsOf(1), "downgrade") = <<U4, U3, U2>>
    /\ Len(WhatOf(EventsOf(2), "upgrade")) = 3
    /\ applied = Chain
    /\ DOMAIN schema = TableNames

FieldNames(tbl) == {tbl.fields[i].name : i \in DOMAIN tbl.fields}

\* every foreign key of every existing table names an existing table, a
\* column of that table, and local columns of its own table; every existing
\* table has exactly one primary-key field
SchemaValid(sch) ==
    \A t \in DOMAIN sch :
        /\ Cardinality({i \in DOMAIN sch[t].fields : sch[t].fields[i].primary_key}) = 1
        /\ \A k \in DOMAIN sch[t].foreign_keys :
              LET fk == sch[t].foreign_keys[k]
              IN /\ fk.ref_table \in DOMAIN sch
                 /\ Range(fk.columns) \subseteq FieldNames(sch[t])
                 /\ fk.ref_table \in DOMAIN sch =>
                       Range(fk.ref_columns) \subseteq FieldNames(sch[fk.ref_table])

\* C13: every schema state reached while the chain is applied forward or
\* reverted backward, the states between the two statements of unit 0004's
\* upgrade and downgrade included, is valid: each foreign key of an existing
\* table references an existing table and local columns its table declares,
\* and each table has exactly one primary-key field; and no step drops a
\* table that a foreign key of a table existing at that moment references.
C13_SchemaValid ==
    /\ []SchemaValid(schema)
    /\ [][\A t \in DOMAIN schema \ DOMAIN schema' :
            \A r \in DOMAIN schema \ {t} :
                \A k \in DOMAIN schema[r].foreign_keys :
                    schema[r].foreign_keys[k].ref_table /= t]_vars

\* C13 witness: a revert is between the two statements of unit 0004's
\* downgrade: post_tags is dropped, tags and the other tables still exist
C13_Witness ==
    /\ mpc = "downgrade" /\ opi = 1
    /\ applied = Chain
    /\ DOMAIN schema = TableNames \ {"post_tags"}
    /\ mlog[Len(mlog)] = [run |-> runs + 1, ev |-> "drop_table", what |-> "post_tags"]

(***************************************************************************)
(* Claims about a failing migration run (checked under FaultSpec)          *)
(***************************************************************************)
\* an apply run has stopped on an error
Halted == kind = "apply" /\ mpc \in SchemaErrors \cup {"EngineError"}

\* C12: applying a unit is atomic.  When an apply run has stopped on a
\* failing upgrade, the failed unit and every unit after it are not in the
\* ledger, the units the run applied before it still are, the schema is the
\* one of the ledger (no table the failed unit created exists) and the run
\* takes no further step; in particular a failure of 0004_create_tags_table
\* after its create_table of tags (a post_tags table is in the way, or the
\* engine fails the second statement) leaves no tags table, and a
\* DuplicateTable failure of that unit happens at that point.
C12_AtomicUnit ==
    Halted =>
        LET u == order[cursor]
            evs == EventsOf(runs + 1)
            last == evs[Len(evs)]
            ledger == SchemaAfter(applied)
        IN /\ \A j \in cursor..Len(order) : order[j] \notin Range(applied)
           /\ WhatOf(evs, "upgrade") = WhatOf(evs, "record") \o <<u>>
           /\ applied = base \o WhatOf(evs, "record")
           /\ schema = saved
           /\ DOMAIN ledger \subseteq DOMAIN schema
           /\ [t \in DOMAIN ledger |-> schema[t]] = ledger
           /\ DOMAIN schema \ DOMAIN ledger \subseteq StrayTables
           /\ \A t \in TablesOf(upgrade(u)) \cap DOMAIN schema : schema[t].foreign_keys = << >>
           /\ (u = U4 /\ mpc = "DuplicateTable") => opi = 1
           /\ (u = U4 /\ opi = 1) =>
                /\ last.ev = "create_table" /\ last.what = "tags"
                /\ "tags" \notin DOMAIN schema
                /\ applied = <<U1, U2, U3>>
           /\ ~ENABLED FaultNext

\* C12 witness: an apply(latest) from the empty ledger applied 0001..0003,
\* created tags in 0004, failed on post_tags, and has stopped without tags
C12_Witness ==
    /\ Halted /\ mpc = "DuplicateTable"
    /\ base = << >> /\ applied = <<U1, U2, U3>>
    /\ order[cursor] = U4 /\ opi = 1
    /\ mlog[Len(mlog)].what = "tags"
    /\ "tags" \notin DOMAIN schema
    /\ "comments" \in DOMAIN schema

(***************************************************************************)
(* The store: rows, and the constraints the migrations declare             *)
(***************************************************************************)
\* ids a request may name: 1..MaxId
MaxId == 3

\* requests admitted in one run of the model
MaxReqs == 2

\* INTEGER PRIMARY KEY without auto_increment: one more than the largest id
NextId(d, t) == IF d[t] = {} THEN 1 ELSE Max({r.id : r \in d[t]}) + 1

UniqueColumns(s, t) == {f.name : f \in {g \in Range(s[t].fields) : g.unique}}

ForeignKeys(s, t) == Range(s[t].foreign_keys)

\* foreign keys not enforced (PRAGMA foreign_keys off)
BrokenKeys_unenforced(s, d, t, row) == {}

\* the foreign keys of t that row breaks: a non-null value naming no row
BrokenKeys(s, d, t, row) ==
    {fk \in ForeignKeys(s, t) :
        /\ row[fk.columns[1]] /= NULL
        /\ \A p \in d[fk.ref_table] : p[fk.ref_columns[1]] /= row[fk.columns[1]]}

\* uniqueness that counts the row being updated as a collision with itself
Collisions_with_self(s, d, t, row) ==
    {c \in UniqueColumns(s, t) : \E r \in d[t] : r[c] = row[c]}

\* the unique columns of t on which row collides with another row
Collisions(s, d, t, row) ==
    {c \in UniqueColumns(s, t) : \E r \in d[t] : r.id /= row.id /\ r[c] = row[c]}

\* what the store answers to INSERT / UPDATE of row
WriteError(s, d, t, row) ==
    IF Collisions(s, d, t, row) /= {} THEN "UniqueConstraintViolation"
    ELSE IF BrokenKeys(s, d, t, row) /= {} THEN "ForeignKeyViolation"
    ELSE "ok"

InsertRow(d, t, row) == [d EXCEPT ![t] = @ \cup {row}]

UpdateRow(d, t, row) == [d EXCEPT ![t] = {r \in @ : r.id /= row.id} \cup {row}]

\* a foreign key declared without ON DELETE CASCADE
OnDelete_no_action(fk) == "NO ACTION"

\* on_delete of a foreign key
OnDelete(fk) == fk.on_delete

\* the rows <<table, id>> holding a CASCADE foreign key to a row of S
Dependents(s, d, S) ==
    UNION {{<<t, r.id>> : r \in {q \in d[t] :
                \E fk \in ForeignKeys(s, t) :
                    /\ OnDelete(fk) = "CASCADE"
                    /\ q[fk.columns[1]] /= NULL
                    /\ <<fk.ref_table, q[fk.columns[1]]>> \in S}}
           : t \in DOMAIN s}

\* a cascade that stops at the rows referencing S directly
Doomed_direct(s, d, S) == S \cup Dependents(s, d, S)

RECURSIVE Doomed(_, _, _)
\* S with everything that references it, transitively
Doomed(s, d, S) ==
    IF Dependents(s, d, S) \subseteq S THEN S
    ELSE Doomed(s, d, S \cup Dependents(s, d, S))

\* DELETE FROM t WHERE id IN ids, with the cascades
DeleteRows(s, d, t, ids) ==
    LET dead == Doomed(s, d, {<<t, i>> : i \in ids})
    IN [u \in DOMAIN d |-> {r \in d[u] : <<u, r.id>> \notin dead}]

\* rows that left, and rows that came, between two states of the store
Gone(d, e) == UNION {{<<t, r.id>> : r \in d[t] \ e[t]} : t \in DOMAIN d}

Came(d, e) == Gone(e, d)

(***************************************************************************)
(* slugify (routes/tags.py); a text is a sequence of characters            *)
(***************************************************************************)
Letters == {"a", "b"}

Capitals == {"A", "B"}

Spaces == {" "}

lower(c) == CASE c = "A" -> "a" [] c = "B" -> "b" [] OTHER -> c

\* \w
IsWord(c) == c \in Letters \cup Capitals \cup {"_"}

\* [\s_-]
IsSeparator(c) == c \in Spaces \cup {"_", "-"}

RECURSIVE StripLeft(_)
StripLeft(t) == IF t /= <<>> /\ Head(t) \in Spaces THEN StripLeft(Tail(t)) ELSE t

RECURSIVE StripRight(_)
StripRight(t) ==
    IF t /= <<>> /\ t[Len(t)] \in Spaces THEN StripRight(SubSeq(t, 1, Len(t) - 1)) ELSE t

RECURSIVE Collapse(_)
\* re.sub(r'[\s_-]+', '-', text)
Collapse(t) ==
    IF t = <<>> THEN <<>>
    ELSE IF IsSeparator(Head(t))
         THEN IF Len(t) > 1 /\ IsSeparator(t[2])
              THEN Collapse(Tail(t))
              ELSE <<"-">> \o Collapse(Tail(t))
         ELSE <<Head(t)>> \o Collapse(Tail(t))

slugify(text) ==
    LET low == [i \in DOMAIN text |-> lower(text[i])]
        stripped == StripRight(StripLeft(low))
        kept == SelectSeq(stripped, LAMBDA c : IsWord(c) \/ c \in Spaces \/ c = "-")
    IN Collapse(kept)

(***************************************************************************)
(* Requests.  req[s] holds the handler's name (op), its arguments (arg),   *)
(* the await it stands at (pc; "done" once it has answered), its answer    *)
(* (res) and its local variables (loc).  History kept for the claims: the  *)
(* request's admission number n, its steps so far k, the slots whose       *)
(* request was in flight together with it (with), and the rows <<table,    *)
(* id>> it removed (gone) and wrote (came).                                *)
(***************************************************************************)
Ids == 1..MaxId

Usernames == {"ann", "bob", "cat"}

Emails == {"ann@x", "bob@x"}

Unset == "<unset>"

TagNames == {<<"a">>, <<"A", " ">>, <<"b", " ", "_", "b">>}

Slugs == {slugify(n) : n \in TagNames}

TagIdLists == {<<>>, <<1>>, <<2>>, <<1, 2>>, <<1, 1>>, <<1, 3, 2>>}

InFlight(s) == req[s].pc /= "done"

\* slot s can take a request
Free(s) == ~InFlight(s) /\ clock < MaxReqs

\* a request arrives at slot s and runs up to its first await
Begin(s, op, arg, pc, res, loc, d) ==
    /\ req' = [t \in Slots |->
                IF t = s
                THEN [op |-> op, arg |-> arg, pc |-> pc, res |-> res, loc |-> loc,
                      n |-> clock + 1, k |-> 1,
                      with |-> {u \in Slots \ {s} : InFlight(u)},
                      gone |-> Gone(db, d), came |-> Came(db, d)]
                ELSE [req[t] EXCEPT !.with = IF InFlight(t) THEN @ \cup {s} ELSE @ \ {s}]]
    /\ clock' = clock + 1
    /\ db' = d
    /\ UNCHANGED migvars

\* the request of slot s runs from one await to the next
Resume(s, pc, res, loc, d) ==
    /\ req' = [req EXCEPT ![s] =
                [@ EXCEPT !.pc = pc, !.res = res, !.loc = loc, !.k = @ + 1,
                          !.gone = @ \cup Gone(db, d), !.came = @ \cup Came(db, d)]]
    /\ clock' = clock
    /\ db' = d
    /\ UNCHANGED migvars

At(s, op, pc) == req[s].op = op /\ req[s].pc = pc

Exists(t, col, v) == \E r \in db[t] : r[col] = v

\* Model.objects.create(**row) on store d: the row with the next id, or the
\* store's error
CreatedIn(d, t, row) ==
    LET new == [c \in DOMAIN row \cup {"id"} |-> IF c = "id" THEN NextId(d, t) ELSE row[c]]
        err == WriteError(schema, d, t, new)
    IN [err |-> err, row |-> new, db |-> IF err = "ok" THEN InsertRow(d, t, new) ELSE d]

Created(t, row) == CreatedIn(db, t, row)

(*------------------------------ routes/users.py -------------------------*)
create_user(s) ==
    /\ Free(s)
    /\ \E u \in Usernames, e \in Emails :
           LET arg == [username |-> u, email |-> e]
           IN IF Exists("users", "username", u)
              THEN Begin(s, "create_user", arg, "done", "400 Username already taken", <<>>, db)
              ELSE Begin(s, "create_user", arg, "check_email", "none", <<>>, db)

create_user_email(s) ==
    /\ At(s, "create_user", "check_email")
    /\ IF Exists("users", "email", req[s].arg.email)
       THEN Resume(s, "done", "400 Email already taken", <<>>, db)
       ELSE Resume(s, "create", "none", <<>>, db)

create_user_create(s) ==
    /\ At(s, "create_user", "create")
    /\ LET c == Created("users", [username |-> req[s].arg.username,
                                  email |-> req[s].arg.email, created_at |-> clock])
       IN Resume(s, "done", c.err, <<>>, c.db)

\* the fields model_dump(exclude_unset=True) yields
SetFields(data) == {f \in DOMAIN data : data[f] /= Unset}

update_user(s) ==
    /\ Free(s)
    /\ \E id \in Ids, u \in Usernames \cup {Unset}, e \in Emails \cup {Unset} :
           LET arg == [id |-> id, data |-> [username |-> u, email |-> e]]
               found == {r \in db["users"] : r.id = id}
           IN IF found = {}
              THEN Begin(s, "update_user", arg, "done", "404 User not found", <<>>, db)
              ELSE LET user == CHOOSE r \in found : TRUE
                       set == [c \in DOMAIN user |->
                                 IF c \in SetFields(arg.data) THEN arg.data[c] ELSE user[c]]
                   IN Begin(s, "update_user", arg, "save", "none", [user |-> set], db)

\* user.save(): an UPDATE of the row with the instance's id.  The ORM writes
\* either the fields that were set or every field of the instance; a row
\* that is gone by now is not written.
update_user_save(s) ==
    /\ At(s, "update_user", "save")
    /\ LET user == req[s].loc.user
           found == {r \in db["users"] : r.id = user.id}
       IN IF found = {}
          THEN Resume(s, "done", "gone", req[s].loc, db)
          ELSE \E cols \in {SetFields(req[s].arg.data), DOMAIN user} :
                LET cur == CHOOSE r \in found : TRUE
                    new == [c \in DOMAIN user |-> IF c \in cols THEN user[c] ELSE cur[c]]
                    err == WriteError(schema, db, "users", new)
                IN Resume(s, "done", err, req[s].loc,
                          IF err = "ok" THEN UpdateRow(db, "users", new) ELSE db)

\* Model.objects.filter(...).delete(): the matching rows and their dependents
Deleted(t, rows) == DeleteRows(schema, db, t, {r.id : r \in rows})

delete_user(s) ==
    /\ Free(s)
    /\ \E id \in Ids :
           LET rows == {r \in db["users"] : r.id = id}
           IN Begin(s, "delete_user", [id |-> id], "done",
                    IF rows = {} THEN "404 User not found" ELSE "ok", <<>>,
                    Deleted("users", rows))

(*------------------------------ routes/posts.py -------------------------*)
\* Post.objects.filter(published=p).count()
CountPublished(p) == Cardinality({r \in db["posts"] : r.published = p})

\* total = await Post.objects.count()
posts_stats(s) ==
    /\ Free(s)
    /\ Begin(s, "posts_stats", <<>>, "published", "none",
             [total |-> Cardinality(db["posts"])], db)

\* published = await Post.objects.filter(published=True).count()
posts_stats_published(s) ==
    /\ At(s, "posts_stats", "published")
    /\ Resume(s, "drafts", "none",
              [total |-> req[s].loc.total, published |-> CountPublished(TRUE)], db)

\* drafts = await Post.objects.filter(published=False).count(); the response
posts_stats_drafts(s) ==
    /\ At(s, "posts_stats", "drafts")
    /\ Resume(s, "done", "ok",
              [total |-> req[s].loc.total, published |-> req[s].loc.published,
               drafts |-> CountPublished(FALSE)], db)

create_post(s) ==
    /\ Free(s)
    /\ \E a \in Ids, p \in BOOLEAN :
           LET c == Created("posts", [author_id |-> a, published |-> p])
           IN Begin(s, "create_post", [author_id |-> a, published |-> p], "done", c.err, <<>>, c.db)

\* len(existing_tags) != len(data.tag_ids)
TagsMissing(ids) == Cardinality({r \in db["tags"] : r.id \in Range(ids)}) /= Len(ids)

create_post_with_tags(s) ==
    /\ Free(s)
    /\ \E a \in Ids, ids \in TagIdLists :
           LET arg == [author_id |-> a, published |-> FALSE, tag_ids |-> ids]
           IN IF ~Exists("users", "id", a)
              THEN Begin(s, "create_post_with_tags", arg, "done", "400 Author not found", <<>>, db)
              ELSE IF ids /= <<>>
              THEN Begin(s, "create_post_with_tags", arg, "check_tags", "none", <<>>, db)
              ELSE Begin(s, "create_post_with_tags", arg, "atomic", "none", <<>>, db)

create_post_with_tags_tags(s) ==
    /\ At(s, "create_post_with_tags", "check_tags")
    /\ IF TagsMissing(req[s].arg.tag_ids)
       THEN Resume(s, "done", "400 One or more tags not found", <<>>, db)
       ELSE Resume(s, "atomic", "none", <<>>, db)

RECURSIVE AddTags(_, _, _)
\* for tag_id in tag_ids: PostTag.objects.create(...), up to the first error
AddTags(d, post_id, ids) ==
    IF ids = <<>> THEN [err |-> "ok", db |-> d]
    ELSE LET c == CreatedIn(d, "post_tags", [post_id |-> post_id, tag_id |-> Head(ids)])
         IN IF c.err /= "ok" THEN [err |-> c.err, db |-> d]
            ELSE AddTags(c.db, post_id, Tail(ids))

\* the block without its transaction: what it wrote stays when it raises
atomic_absent(before, out) == out.db

\* async with transaction.atomic(): commit, or roll back when the block raises
atomic(before, out) == IF out.err = "ok" THEN out.db ELSE before

create_post_with_tags_atomic(s) ==
    /\ At(s, "create_post_with_tags", "atomic")
    /\ LET post == Created("posts", [author_id |-> req[s].arg.author_id,
                                     published |-> req[s].arg.published])
           out == IF post.err /= "ok" THEN [err |-> post.err, db |-> db]
                  ELSE AddTags(post.db, post.row.id, req[s].arg.tag_ids)
       IN Resume(s, "done", out.err,
                 [post |-> post.row, wrote |-> Cardinality(Came(db, out.db))],
                 atomic(db, out))

\* PostUpdate bodies, as model_dump(exclude_unset=True) yields them: no field
\* set, or published set (title and content are not modelled)
PostUpdates == {<<>>} \cup {[published |-> p] : p \in BOOLEAN}

update_post(s) ==
    /\ Free(s)
    /\ \E id \in Ids, data \in PostUpdates :
           LET arg == [id |-> id, data |-> data]
               found == {r \in db["posts"] : r.id = id}
           IN IF found = {}
              THEN Begin(s, "update_post", arg, "done", "404 Post not found", <<>>, db)
              ELSE LET post == CHOOSE r \in found : TRUE
                       set == [c \in DOMAIN post |->
                                 IF c \in DOMAIN data THEN data[c] ELSE post[c]]
                   IN Begin(s, "update_post", arg, "save", "none", [post |-> set], db)

\* post.save(), as user.save()
update_post_save(s) ==
    /\ At(s, "update_post", "save")
    /\ LET post == req[s].loc.post
           found == {r \in db["posts"] : r.id = post.id}
       IN IF found = {}
          THEN Resume(s, "done", "gone", req[s].loc, db)
          ELSE \E cols \in {DOMAIN req[s].arg.data, DOMAIN post} :
                LET cur == CHOOSE r \in found : TRUE
                    new == [c \in DOMAIN post |-> IF c \in cols THEN post[c] ELSE cur[c]]
                    err == WriteError(schema, db, "posts", new)
                IN Resume(s, "done", err, req[s].loc,
                          IF err = "ok" THEN UpdateRow(db, "posts", new) ELSE db)

delete_post(s) ==
    /\ Free(s)
    /\ \E id \in Ids :
           LET rows == {r \in db["posts"] : r.id = id}
           IN Begin(s, "delete_post", [id |-> id], "done",
                    IF rows = {} THEN "404 Post not found" ELSE "ok", <<>>,
                    Deleted("posts", rows))

set_post_tags(s) ==
    /\ Free(s)
    /\ \E id \in Ids, ids \in TagIdLists :
           LET arg == [post_id |-> id, tag_ids |-> ids]
           IN IF ~Exists("posts", "id", id)
              THEN Begin(s, "set_post_tags", arg, "done", "404 Post not found", <<>>, db)
              ELSE Begin(s, "set_post_tags", arg, "check_tags", "none", <<>>, db)

set_post_tags_tags(s) ==
    /\ At(s, "set_post_tags", "check_tags")
    /\ IF TagsMissing(req[s].arg.tag_ids)
       THEN Resume(s, "done", "400 One or more tags not found", <<>>, db)
       ELSE Resume(s, "delete", "none", <<>>, db)

set_post_tags_delete(s) ==
    /\ At(s, "set_post_tags", "delete")
    /\ LET old == {r \in db["post_tags"] : r.post_id = req[s].arg.post_id}
       IN IF req[s].arg.tag_ids = <<>>
          THEN Resume(s, "done", "ok", <<>>, Deleted("post_tags", old))
          ELSE Resume(s, "create", "none", [i |-> 1], Deleted("post_tags", old))

set_post_tags_create(s) ==
    /\ At(s, "set_post_tags", "create")
    /\ LET i == req[s].loc.i
           c == Created("post_tags", [post_id |-> req[s].arg.post_id,
                                      tag_id |-> req[s].arg.tag_ids[i]])
       IN IF c.err /= "ok" THEN Resume(s, "done", c.err, req[s].loc, c.db)
          ELSE IF i = Len(req[s].arg.tag_ids) THEN Resume(s, "done", "ok", req[s].loc, c.db)
          ELSE Resume(s, "create", "none", [i |-> i + 1], c.db)

add_tag_to_post(s) ==
    /\ Free(s)
    /\ \E p \in Ids, t \in Ids :
           LET arg == [post_id |-> p, tag_id |-> t]
           IN IF ~Exists("posts", "id", p)
              THEN Begin(s, "add_tag_to_post", arg, "done", "404 Post not found", <<>>, db)
              ELSE Begin(s, "add_tag_to_post", arg, "check_tag", "none", <<>>, db)

add_tag_to_post_tag(s) ==
    /\ At(s, "add_tag_to_post", "check_tag")
    /\ IF ~Exists("tags", "id", req[s].arg.tag_id)
       THEN Resume(s, "done", "404 Tag not found", <<>>, db)
       ELSE Resume(s, "check_added", "none", <<>>, db)

add_tag_to_post_added(s) ==
    /\ At(s, "add_tag_to_post", "check_added")
    /\ IF \E r \in db["post_tags"] :
            r.post_id = req[s].arg.post_id /\ r.tag_id = req[s].arg.tag_id
       THEN Resume(s, "done", "400 Tag already added to post", <<>>, db)
       ELSE Resume(s, "create", "none", <<>>, db)

add_tag_to_post_create(s) ==
    /\ At(s, "add_tag_to_post", "create")
    /\ LET c == Created("post_tags", [post_id |-> req[s].arg.post_id,
                                      tag_id |-> req[s].arg.tag_id])
       IN Resume(s, "done", c.err, <<>>, c.db)

remove_tag_from_post(s) ==
    /\ Free(s)
    /\ \E p \in Ids, t \in Ids :
           LET rows == {r \in db["post_tags"] : r.post_id = p /\ r.tag_id = t}
           IN Begin(s, "remove_tag_from_post", [post_id |-> p, tag_id |-> t], "done",
                    IF rows = {} THEN "404 Relationship not found" ELSE "ok", <<>>,
                    Deleted("post_tags", rows))

(*------------------------------ routes/tags.py --------------------------*)
create_tag(s) ==
    /\ Free(s)
    /\ \E name \in TagNames :
           LET arg == [name |-> name]
               slug == slugify(name)
           IN IF Exists("tags", "slug", slug)
              THEN Begin(s, "create_tag", arg, "done", "400 Tag already exists", [slug |-> slug], db)
              ELSE Begin(s, "create_tag", arg, "create", "none", [slug |-> slug], db)

create_tag_create(s) ==
    /\ At(s, "create_tag", "create")
    /\ LET c == Created("tags", [name |-> req[s].arg.name, slug |-> req[s].loc.slug])
       IN Resume(s, "done", c.err, req[s].loc, c.db)

delete_tag(s) ==
    /\ Free(s)
    /\ \E slug \in Slugs :
           LET rows == {r \in db["tags"] : r.slug = slug}
           IN Begin(s, "delete_tag", [slug |-> slug], "done",
                    IF rows = {} THEN "404 Tag not found" ELSE "ok", <<>>,
                    Deleted("tags", rows))

(*------------------------------ routes/comments.py ----------------------*)
create_comment(s) ==
    /\ Free(s)
    /\ \E p \in Ids, a \in Ids :
           LET arg == [post_id |-> p, author_id |-> a]
           IN IF ~Exists("posts", "id", p)
              THEN Begin(s, "create_comment", arg, "done", "404 Post not found", <<>>, db)
              ELSE Begin(s, "create_comment", arg, "check_author", "none", <<>>, db)

create_comment_author(s) ==
    /\ At(s, "create_comment", "check_author")
    /\ IF ~Exists("users", "id", req[s].arg.author_id)
       THEN Resume(s, "done", "400 Author not found", <<>>, db)
       ELSE Resume(s, "create", "none", <<>>, db)

create_comment_create(s) ==
    /\ At(s, "create_comment", "create")
    /\ LET c == Created("comments", [post_id |-> req[s].arg.post_id,
                                     author_id |-> req[s].arg.author_id])
       IN Resume(s, "done", c.err, <<>>, c.db)

delete_comment(s) ==
    /\ Free(s)
    /\ \E id \in Ids :
           LET rows == {r \in db["comments"] : r.id = id}
           IN Begin(s, "delete_comment", [id |-> id], "done",
                    IF rows = {} THEN "404 Comment not found" ELSE "ok", <<>>,
                    Deleted("comments", rows))

(***************************************************************************)
(* The serving process: the schema is the applied chain's                  *)
(***************************************************************************)
EmptyStore == [t \in TableNames |-> {}]

\* a blog as the handlers build it: create_user twice, create_post twice,
\* create_comment twice, create_tag twice, add_tag_to_post once
SeededStore ==
    [t \in TableNames |->
        CASE t = "users" ->
                {[id |-> 1, username |-> "ann", email |-> "ann@x", created_at |-> 0],
                 [id |-> 2, username |-> "bob", email |-> "bob@x", created_at |-> 0]}
          [] t = "posts" ->
                {[id |-> 1, author_id |-> 1, published |-> TRUE],
                 [id |-> 2, author_id |-> 2, published |-> FALSE]}
          [] t = "comments" ->
                {[id |-> 1, post_id |-> 1, author_id |-> 2],
                 [id |-> 2, post_id |-> 2, author_id |-> 1]}
          [] t = "tags" ->
                {[id |-> 1, name |-> <<"a">>, slug |-> <<"a">>],
                 [id |-> 2, name |-> <<"b", " ", "_", "b">>, slug |-> <<"b", "-", "b">>]}
          [] t = "post_tags" ->
                {[id |-> 1, post_id |-> 1, tag_id |-> 1]}]

Init ==
    /\ applied = Chain
    /\ schema = SchemaAfter(applied)
    /\ order = Chain
    /\ mpc = "idle"
    /\ cursor = Len(Chain) + 1
    /\ opi = 0
    /\ saved = schema
    /\ base = applied
    /\ kind = "apply"
    /\ target = None
    /\ runs = 1
    /\ mlog = <<>>
    /\ db \in {EmptyStore, SeededStore}
    /\ req = [s \in Slots |-> Idle]
    /\ clock = 0

Next ==
    \E s \in Slots :
        \/ create_user(s)
        \/ create_user_email(s)
        \/ create_user_create(s)
        \/ update_user(s)
        \/ update_user_save(s)
        \/ delete_user(s)
        \/ create_post(s)
        \/ create_post_with_tags(s)
        \/ create_post_with_tags_tags(s)
        \/ create_post_with_tags_atomic(s)
        \/ posts_stats(s)
        \/ posts_stats_published(s)
        \/ posts_stats_drafts(s)
        \/ update_post(s)
        \/ update_post_save(s)
        \/ delete_post(s)
        \/ set_post_tags(s)
        \/ set_post_tags_tags(s)
        \/ set_post_tags_delete(s)
        \/ set_post_tags_create(s)
        \/ add_tag_to_post(s)
        \/ add_tag_to_post_tag(s)
        \/ add_tag_to_post_added(s)
        \/ add_tag_to_post_create(s)
        \/ remove_tag_from_post(s)
        \/ create_tag(s)
        \/ create_tag_create(s)
        \/ delete_tag(s)
        \/ create_comment(s)
        \/ create_comment_author(s)
        \/ create_comment_create(s)
        \/ delete_comment(s)

Spec == Init /\ [][Next]_vars

(***************************************************************************)
(* Claims about the request handlers (checked under Spec)                  *)
(***************************************************************************)
\* slot s takes this step
StepOf(s) == req'[s].n /= req[s].n \/ req'[s].k /= req[s].k

\* the step is the arrival of a request at slot s
Arrives(s) == req'[s].n /= req[s].n

Done(s, op) == req[s].op = op /\ req[s].pc = "done"

IdsOf(rows) == {r.id : r \in rows}

\* C1: create_post_with_tags is all-or-nothing under every interleaving: a
\* step of it either answers ok, having added exactly one posts row (the
\* author's) and exactly one post_tags row per id of tag_ids, all for that
\* post, and nothing else, or it does not answer ok and leaves every table
\* (posts, comments, post_tags, ...) as it was.
C1_AllOrNothing ==
    [][\A s \in Slots :
        (StepOf(s) /\ req'[s].op = "create_post_with_tags") =>
            LET r == req'[s]
                ids == r.arg.tag_ids
                posts == db'["posts"] \ db["posts"]
                links == db'["post_tags"] \ db["post_tags"]
            IN \/ /\ r.res = "ok" /\ r.pc = "done"
                  /\ Cardinality(posts) = 1
                  /\ \A p \in posts : p = r.loc.post /\ p.author_id = r.arg.author_id
                  /\ \A l \in links : l.post_id = r.loc.post.id
                  /\ Cardinality(links) = Len(ids)
                  /\ \A i \in DOMAIN ids :
                        Cardinality({l \in links : l.tag_id = ids[i]}) = 1
                  /\ \A t \in TableNames : db[t] \subseteq db'[t]
                  /\ \A t \in TableNames \ {"posts", "post_tags"} : db'[t] = db[t]
               \/ /\ r.res /= "ok"
                  /\ db' = db]_vars

\* C1 witness: a call whose tag was deleted after the existence check has
\* raised ForeignKeyViolation inside the transaction, after the post (and a
\* first association) had been written there, and none of it is in the store
C1_Witness ==
    \E s \in Slots :
        /\ Done(s, "create_post_with_tags")
        /\ req[s].res = "ForeignKeyViolation"
        /\ req[s].loc.wrote >= 2
        /\ req[s].came = {}
        /\ req[s].loc.post.id \notin IdsOf(db["posts"])

\* C2: delete_user cascades transitively: after a successful delete_user(id)
\* there is no users row id, no posts row with author_id = id, no comments
\* row with author_id = id or post_id one of that user's posts, and no
\* post_tags row with post_id one of that user's posts.
C2_DeleteUserCascades ==
    [][\A s \in Slots :
        (Arrives(s) /\ req'[s].op = "delete_user" /\ req'[s].res = "ok") =>
            LET id == req'[s].arg.id
                theirs == IdsOf({p \in db["posts"] : p.author_id = id})
            IN /\ id \in IdsOf(db["users"])
               /\ id \notin IdsOf(db'["users"])
               /\ \A p \in db'["posts"] : p.author_id /= id
               /\ \A c \in db'["comments"] : c.author_id /= id /\ c.post_id \notin theirs
               /\ \A l \in db'["post_tags"] : l.post_id \notin theirs]_vars

\* C2 witness: a delete_user has removed the user, a post of theirs, a
\* comment and a post_tags row
C2_Witness ==
    \E s \in Slots :
        /\ Done(s, "delete_user")
        /\ req[s].res = "ok"
        /\ \A t \in {"users", "posts", "comments", "post_tags"} :
              \E g \in req[s].gone : g[1] = t
        /\ Cardinality({g \in req[s].gone : g[1] = "comments"}) >= 2

\* C3: the junction table never holds two rows with the same
\* (post_id, tag_id) pair.
C3_NoDuplicateAssociation ==
    \A a \in db["post_tags"] : \A b \in db["post_tags"] :
        (a.post_id = b.post_id /\ a.tag_id = b.tag_id) => a = b

TagsUnique ==
    \A a \in db["tags"] : \A b \in db["tags"] :
        (a.name = b.name \/ a.slug = b.slug) => a = b

\* C4: of two create_tag requests with the same name that were in flight
\* together (both passed the slug check before either inserted), exactly one
\* answers ok, having created the one tags row of that name, and the other
\* fails with UniqueConstraintViolation; the tags table never holds two rows
\* with the same name or the same slug.
C4_ConcurrentCreateTag ==
    /\ TagsUnique
    /\ \A s \in Slots : \A t \in Slots \ {s} :
        (/\ Done(s, "create_tag") /\ Done(t, "create_tag")
         /\ req[s].arg.name = req[t].arg.name
         /\ t \in req[s].with
         /\ "400 Tag already exists" \notin {req[s].res, req[t].res})
        => /\ {req[s].res, req[t].res} = {"ok", "UniqueConstraintViolation"}
           /\ Cardinality(req[s].came \cup req[t].came) = 1
           /\ Cardinality({r \in db["tags"] : r.name = req[s].arg.name}) = 1

\* C4 witness: two create_tag requests with the same name, in flight
\* together, have both answered
C4_Witness ==
    \E s \in Slots : \E t \in Slots \ {s} :
        /\ Done(s, "create_tag") /\ Done(t, "create_tag")
        /\ req[s].arg.name = req[t].arg.name
        /\ t \in req[s].with /\ s \in req[t].with
        /\ req[s].res = "ok"
        /\ req[t].res = "UniqueConstraintViolation"

\* C5: create_user with a username that an existing user holds fails and
\* writes nothing: a step of it taken while the username is held leaves every
\* row (the holder's included) as it was and does not answer ok, and when
\* that step is the username check or the insert it ends the request, with
\* "Username already taken" or with the store's UniqueConstraintViolation.
C5_DuplicateUsername ==
    [][\A s \in Slots :
        (/\ StepOf(s)
         /\ req'[s].op = "create_user"
         /\ Exists("users", "username", req'[s].arg.username))
        => /\ db' = db
           /\ req'[s].res /= "ok"
           /\ (Arrives(s) \/ req[s].pc = "create") =>
                /\ req'[s].pc = "done"
                /\ req'[s].res \in {"400 Username already taken", "UniqueConstraintViolation"}]_vars

\* C5 witness: a create_user was refused for its username, whose holder's row
\* is in the table
C5_Witness ==
    \E s \in Slots :
        /\ Done(s, "create_user")
        /\ req[s].res = "400 Username already taken"
        /\ req[s].came = {}
        /\ \E u \in db["users"] : u.username = req[s].arg.username /\ u.created_at = 0

UsersUnique ==
    \A a \in db["users"] : \A b \in db["users"] :
        (a.username = b.username \/ a.email = b.email) => a = b

\* C6: when update_user saves a user whose row exists, a field it sets to a
\* value another user holds makes it fail with UniqueConstraintViolation and
\* change no row; otherwise (the values it sets are free or the user's own,
\* and the row is as the handler read it) it answers ok and the row holds
\* the values set; and no two users ever share a username or an email.
C6_UpdateUserUnique ==
    /\ []UsersUnique
    /\ [][\A s \in Slots :
            (/\ StepOf(s)
             /\ At(s, "update_user", "save")
             /\ req[s].arg.id \in IdsOf(db["users"]))
            => LET data == req[s].arg.data
                   cur == CHOOSE r \in db["users"] : r.id = req[s].arg.id
                   others == db["users"] \ {cur}
                   clash == \E f \in SetFields(data) : \E o \in others : o[f] = data[f]
                   asread == \A f \in DOMAIN cur \ SetFields(data) : req[s].loc.user[f] = cur[f]
                   new == [f \in DOMAIN cur |-> IF f \in SetFields(data) THEN data[f] ELSE cur[f]]
               IN /\ clash => (req'[s].res = "UniqueConstraintViolation" /\ db' = db)
                  /\ (~clash /\ asread) =>
                        /\ req'[s].res = "ok"
                        /\ db' = [db EXCEPT !["users"] = others \cup {new}]]_vars

\* C6 witness: an update_user that set a username another user holds has
\* failed with UniqueConstraintViolation and both rows are in the table
C6_Witness ==
    \E s \in Slots :
        /\ Done(s, "update_user")
        /\ req[s].res = "UniqueConstraintViolation"
        /\ req[s].arg.data.username /= Unset
        /\ req[s].came = {} /\ req[s].gone = {}
        /\ \E a \in db["users"] : \E b \in db["users"] :
              /\ a.id = req[s].arg.id /\ b.id /= a.id
              /\ b.username = req[s].arg.data.username
              /\ a.username /= b.username

\* every foreign-key value names a row of the referenced table
ReferencesExist ==
    /\ \A p \in db["posts"] : p.author_id = NULL \/ p.author_id \in IdsOf(db["users"])
    /\ \A c \in db["comments"] :
          /\ c.post_id = NULL \/ c.post_id \in IdsOf(db["posts"])
          /\ c.author_id = NULL \/ c.author_id \in IdsOf(db["users"])
    /\ \A l \in db["post_tags"] :
          /\ l.post_id = NULL \/ l.post_id \in IdsOf(db["posts"])
          /\ l.tag_id = NULL \/ l.tag_id \in IdsOf(db["tags"])

\* C7: in every reachable state every non-null posts.author_id,
\* comments.post_id, comments.author_id, post_tags.post_id and
\* post_tags.tag_id names an existing row; and an insert whose foreign key
\* names a missing row (create_post with an unknown author, the insert of
\* create_comment, add_tag_to_post or set_post_tags after the row went away)
\* is refused with ForeignKeyViolation and writes nothing.
C7_ReferencesExist ==
    /\ []ReferencesExist
    /\ [][\A s \in Slots : StepOf(s) =>
            LET a == req'[s].arg
                users == IdsOf(db["users"])
                posts == IdsOf(db["posts"])
                tags == IdsOf(db["tags"])
                refused == req'[s].res = "ForeignKeyViolation" /\ db' = db
            IN /\ (req'[s].op = "create_post" /\ a.author_id \notin users) => refused
               /\ (At(s, "create_comment", "create")
                     /\ (a.post_id \notin posts \/ a.author_id \notin users)) => refused
               /\ (At(s, "add_tag_to_post", "create")
                     /\ (a.post_id \notin posts \/ a.tag_id \notin tags)) => refused
               /\ (At(s, "set_post_tags", "create")
                     /\ (a.post_id \notin posts \/ a.tag_ids[req[s].loc.i] \notin tags))
                  => refused]_vars

\* C7 witness: a create_comment whose post was deleted between the existence
\* check and the insert has been refused
C7_Witness ==
    \E s \in Slots :
        /\ Done(s, "create_comment")
        /\ req[s].res = "ForeignKeyViolation"
        /\ req[s].arg.post_id \notin IdsOf(db["posts"])
        /\ req[s].arg.author_id \in IdsOf(db["users"])
        /\ req[s].came = {}

\* what a successful delete_tag does
TagDeleted(s) ==
    LET ids == IdsOf({t \in db["tags"] : t.slug = req'[s].arg.slug})
    IN /\ ids /= {}
       /\ db'["tags"] = {t \in db["tags"] : t.id \notin ids}
       /\ db'["post_tags"] = {l \in db["post_tags"] : l.tag_id \notin ids}
       /\ \A t \in {"posts", "users", "comments"} : db'[t] = db[t]

\* what a successful delete_post does to posts, post_tags, tags and users
PostDeleted(s) ==
    LET id == req'[s].arg.id
    IN /\ id \in IdsOf(db["posts"])
       /\ db'["posts"] = {p \in db["posts"] : p.id /= id}
       /\ db'["post_tags"] = {l \in db["post_tags"] : l.post_id /= id}
       /\ \A t \in {"tags", "users"} : db'[t] = db[t]

Deletes(s, op) == Arrives(s) /\ req'[s].op = op /\ req'[s].res = "ok"

\* C8 as stated: delete_tag removes the tag and its post_tags rows and
\* nothing else, and delete_post removes the post and its post_tags rows and
\* nothing else.
C8_OnlyJunctionRows ==
    [][\A s \in Slots :
        /\ Deletes(s, "delete_tag") => TagDeleted(s)
        /\ Deletes(s, "delete_post") =>
              (PostDeleted(s) /\ db'["comments"] = db["comments"])]_vars

\* C8 amended: delete_tag removes exactly the tag and the post_tags rows with
\* its tag_id (no posts row); delete_post removes exactly the post, the
\* post_tags rows with its post_id and the comments with its post_id (no
\* tags row, no users row).
C8_DeleteOneSide ==
    [][\A s \in Slots :
        /\ Deletes(s, "delete_tag") => TagDeleted(s)
        /\ Deletes(s, "delete_post") =>
              /\ PostDeleted(s)
              /\ db'["comments"] =
                    {c \in db["comments"] : c.post_id /= req'[s].arg.id}]_vars

\* C8 witness: a delete_post has removed the post with a post_tags row and a
\* comment of it, and no tag
C8_Witness ==
    \E s \in Slots :
        /\ Done(s, "delete_post")
        /\ req[s].res = "ok"
        /\ \A t \in {"posts", "post_tags", "comments"} : \E g \in req[s].gone : g[1] = t
        /\ \A g \in req[s].gone : g[1] /= "tags"
        /\ db["tags"] /= {}

\* the tag ids associated with post p in store d
TagIdsOf(d, p) == {l.tag_id : l \in {r \in d["post_tags"] : r.post_id = p}}

\* C14: set_post_tags replaces the post's associations all-or-nothing: the
\* step that answers ok leaves exactly the ids of tag_ids associated with
\* the post, and a call that has failed (missing post, missing tag, or a
\* constraint violation during the inserts) has removed and added no
\* post_tags row.
C14_SetPostTagsAllOrNothing ==
    /\ [](\A s \in Slots :
            (Done(s, "set_post_tags") /\ req[s].res /= "ok")
            => (req[s].gone = {} /\ req[s].came = {}))
    /\ [][\A s \in Slots :
            (/\ StepOf(s)
             /\ req'[s].op = "set_post_tags"
             /\ req'[s].pc = "done"
             /\ req'[s].res = "ok")
            => TagIdsOf(db', req'[s].arg.post_id) = Range(req'[s].arg.tag_ids)]_vars

\* C15: every response of posts_stats has total = published + drafts, also
\* when posts are created, updated or deleted between its three counts.
C15_StatsAddUp ==
    \A s \in Slots :
        Done(s, "posts_stats") =>
            req[s].loc.total = req[s].loc.published + req[s].loc.drafts

=============================================================================
